---- MODULE Spec2Model ----
(***************************************************************************)
(* The archive lookup server of repotool (src/src/serve.rs): the record    *)
(* parsers, the two lock-guarded archive stores with their watcher         *)
(* threads, the URL normalisation of handle_has_git_repo_req and the       *)
(* request loop of run.                                                    *)
(*                                                                         *)
(* A string is a sequence of one-character strings.  An Option or the Vec  *)
(* collected from a filter_map is a sequence of the values that are there. *)
(***************************************************************************)
EXTENDS Integers, Sequences, FiniteSets, TLC

\* ------------------------------------------------------------------ bounds
\* tokens concatenated into a query URL of the normalisation specification
MaxParts == 5

\* tokens concatenated into a query URL of the lookup specification
MaxQueryParts == 2

\* tokens concatenated into a query URL of the stripping specification
MaxStripParts == 4

\* lines of an archive file of the lookup specification
MaxLines == 2

\* lines of an archive file of the parser specification
MaxParseLines == 3

\* requests accepted by the server
MaxRequests == 2

\* file changes, watch errors and channel closes the environment produces
MaxStimuli == 2

\* ----------------------------------------------------------------- strings
UpperChars == <<"A","B","C","D","E","F","G","H","I","J","K","L","M",
                "N","O","P","Q","R","S","T","U","V","W","X","Y","Z">>

LowerChars == <<"a","b","c","d","e","f","g","h","i","j","k","l","m",
                "n","o","p","q","r","s","t","u","v","w","x","y","z">>

LetterIndexes == 1..Len(UpperChars)

LowerMap == [c \in {UpperChars[i] : i \in LetterIndexes} |->
               LowerChars[CHOOSE i \in LetterIndexes : UpperChars[i] = c]]

UpperMap == [c \in {LowerChars[i] : i \in LetterIndexes} |->
               UpperChars[CHOOSE i \in LetterIndexes : LowerChars[i] = c]]

\* str::to_lowercase
to_lowercase(s) == [i \in 1..Len(s) |-> IF s[i] \in DOMAIN LowerMap THEN LowerMap[s[i]] ELSE s[i]]

\* str::to_uppercase (used to build mixed-case inputs only)
to_uppercase(s) == [i \in 1..Len(s) |-> IF s[i] \in DOMAIN UpperMap THEN UpperMap[s[i]] ELSE s[i]]

\* str::strip_suffix: Some(rest) as <<rest>>, None as <<>>
strip_suffix(s, suf) ==
    IF Len(suf) <= Len(s) /\ SubSeq(s, Len(s) - Len(suf) + 1, Len(s)) = suf
    THEN << SubSeq(s, 1, Len(s) - Len(suf)) >>
    ELSE << >>

\* str::strip_prefix: Some(rest) as <<rest>>, None as <<>>
strip_prefix(s, pre) ==
    IF Len(pre) <= Len(s) /\ SubSeq(s, 1, Len(pre)) = pre
    THEN << SubSeq(s, Len(pre) + 1, Len(s)) >>
    ELSE << >>

\* ------------------------------------------------- URL normalisation
HTTP == <<"h","t","t","p",":","/","/">>

HTTPS == <<"h","t","t","p","s",":","/","/">>

GIT == <<"g","i","t",":","/","/">>

DOTGIT == <<".","g","i","t">>

\* the schemes without their "://"
schemas_bare == << <<"h","t","t","p">>, <<"h","t","t","p","s">>, <<"g","i","t">> >>

schemas == << HTTP, HTTPS, GIT >>

suffixes == << DOTGIT >>

\* the URL is used in the case it was given in
original_as_given(url) == url

original(url) == to_lowercase(url)

\* suffixes.iter().filter_map(|s| o.strip_suffix(s)) over the first n suffixes
RECURSIVE strip_suffixes(_, _)
strip_suffixes(o, n) ==
    IF n = 0 THEN << >> ELSE strip_suffixes(o, n - 1) \o strip_suffix(o, suffixes[n])

\* the Vec collected from it
suffix_matches(url) == strip_suffixes(original(url), Len(suffixes))

\* the result of strip_suffix is dropped and the URL goes on with its suffix
suffix_stripped_kept(url) == original(url)

suffix_stripped(url) ==
    IF suffix_matches(url) = << >> THEN original(url) ELSE suffix_matches(url)[1]

\* schemas.iter().filter_map(|s| b.strip_prefix(s)) over the first n schemas
RECURSIVE strip_schemas(_, _)
strip_schemas(b, n) ==
    IF n = 0 THEN << >> ELSE strip_schemas(b, n - 1) \o strip_prefix(b, schemas[n])

\* the Vec collected from it
schema_matches(url) == strip_schemas(suffix_stripped(url), Len(schemas))

stripped(url) ==
    IF schema_matches(url) = << >> THEN suffix_stripped(url) ELSE schema_matches(url)[1]

\* the bail!("logic error") branches
logic_error(url) == Len(suffix_matches(url)) > 1 \/ Len(schema_matches(url)) > 1

\* the inner loop pushes with_schema as it is, without the suffix
RECURSIVE with_suffixes_repeating(_, _)
with_suffixes_repeating(with_schema, n) ==
    IF n = 0 THEN << >>
    ELSE with_suffixes_repeating(with_schema, n - 1) \o << with_schema >>

\* the inner loop over suffixes followed by the push of with_schema
RECURSIVE with_suffixes(_, _)
with_suffixes(with_schema, n) ==
    IF n = 0 THEN << >>
    ELSE with_suffixes(with_schema, n - 1) \o << with_schema \o suffixes[n] >>

\* the outer loop pushes with_schema before the inner loop over suffixes
RECURSIVE with_schemas_plain_first(_, _)
with_schemas_plain_first(st, n) ==
    IF n = 0 THEN << >>
    ELSE with_schemas_plain_first(st, n - 1)
           \o << schemas[n] \o st >>
           \o with_suffixes(schemas[n] \o st, Len(suffixes))

\* the outer loop over schemas
RECURSIVE with_schemas(_, _)
with_schemas(st, n) ==
    IF n = 0 THEN << >>
    ELSE with_schemas(st, n - 1)
           \o with_suffixes(schemas[n] \o st, Len(suffixes))
           \o << schemas[n] \o st >>

\* the lowercased query itself is tried as one more variant
variants_of_with_original(url) ==
    with_schemas(stripped(url), Len(schemas)) \o << stripped(url) >> \o << original(url) >>

variants_of(url) == with_schemas(stripped(url), Len(schemas)) \o << stripped(url) >>

\* ------------------------------------------------------ record parser
COMMA == ","

IsWhitespace(c) == c \in {" ", "\t"}

RECURSIVE trim_start(_)
trim_start(s) ==
    IF s # << >> /\ IsWhitespace(Head(s)) THEN trim_start(Tail(s)) ELSE s

RECURSIVE trim_end(_)
trim_end(s) ==
    IF s # << >> /\ IsWhitespace(s[Len(s)]) THEN trim_end(SubSeq(s, 1, Len(s) - 1)) ELSE s

\* str::trim
trim(s) == trim_end(trim_start(s))

\* str::split(',') over the first n characters of s
RECURSIVE split(_, _)
split(s, n) ==
    IF n = 0 THEN << << >> >>
    ELSE LET r == split(s, n - 1)
         IN  IF s[n] = COMMA
             THEN Append(r, << >>)
             ELSE [r EXCEPT ![Len(r)] = Append(@, s[n])]

RepoMetadata(parts) ==
    [url |-> parts[1], path |-> parts[2], commit_hash |-> parts[3],
     commit_date |-> parts[4], last_fetch |-> parts[5]]

EmptyMap == [k \in {} |-> RepoMetadata(<< << >>, << >>, << >>, << >>, << >> >>)]

\* an entry that is there is kept (entry().or_insert)
Insert_keep_first(map, k, v) ==
    [x \in DOMAIN map \cup {k} |-> IF x \in DOMAIN map THEN map[x] ELSE v]

\* HashMap::insert
Insert(map, k, v) == [x \in DOMAIN map \cup {k} |-> IF x = k THEN v ELSE map[x]]

\* the same chain with a filter_map that drops the lines without 5 fields
RECURSIVE collect_git_skipping_bad(_, _)
collect_git_skipping_bad(lines, n) ==
    IF n = 0 THEN [bad |-> FALSE, map |-> EmptyMap]
    ELSE LET r == collect_git_skipping_bad(lines, n - 1)
             line == trim(lines[n])
             parts == split(line, Len(line))
         IN  IF line = << >> \/ Len(parts) # 5 THEN r
             ELSE [bad |-> FALSE,
                   map |-> Insert(r.map, to_lowercase(parts[1]), RepoMetadata(parts))]

\* the iterator chain of read_and_parse_git_archive over the first n lines:
\* bad is set by the panic!("bad line") of the first line without 5 fields
RECURSIVE collect_git(_, _)
collect_git(lines, n) ==
    IF n = 0 THEN [bad |-> FALSE, map |-> EmptyMap]
    ELSE LET r == collect_git(lines, n - 1)
             line == trim(lines[n])
             parts == split(line, Len(line))
         IN  IF r.bad \/ line = << >> THEN r
             ELSE IF Len(parts) # 5 THEN [bad |-> TRUE, map |-> EmptyMap]
             ELSE [bad |-> FALSE,
                   map |-> Insert(r.map, to_lowercase(parts[1]), RepoMetadata(parts))]

\* a file on disk: readable is FALSE when read_to_string fails
read_and_parse_git_archive(file) ==
    IF ~file.readable THEN [status |-> "io_error", map |-> EmptyMap]
    ELSE LET r == collect_git(file.lines, Len(file.lines))
         IN  IF r.bad THEN [status |-> "panic", map |-> EmptyMap]
             ELSE [status |-> "ok", map |-> r.map]

read_and_parse_huggingface_archive(file) ==
    IF ~file.readable THEN [status |-> "io_error", urls |-> {}]
    ELSE [status |-> "ok",
          urls |-> {trim(file.lines[i]) : i \in 1..Len(file.lines)} \ {<< >>}]

\* --------------------------------------------------- lookup of the variants
\* the loop stops collecting after its first match
lookup_first_only(archive, variant, acc) ==
    IF variant \in DOMAIN archive /\ acc.existing = << >>
    THEN [existing |-> Append(acc.existing, archive[variant].url),
          metadata |-> << archive[variant] >>]
    ELSE acc

\* metadata.is_some() tested where metadata.is_none() is meant
lookup_meta_inverted(archive, variant, acc) ==
    IF variant \in DOMAIN archive
    THEN [existing |-> Append(acc.existing, archive[variant].url),
          metadata |-> IF acc.metadata # << >> THEN << archive[variant] >>
                       ELSE acc.metadata]
    ELSE acc

\* the metadata carries the variant that matched as its url
lookup_meta_url_from_key(archive, variant, acc) ==
    IF variant \in DOMAIN archive
    THEN [existing |-> Append(acc.existing, archive[variant].url),
          metadata |-> IF acc.metadata = << >>
                       THEN << [archive[variant] EXCEPT !.url = variant] >>
                       ELSE acc.metadata]
    ELSE acc

\* one iteration of the loop over variants of handle_has_git_repo_req
lookup(archive, variant, acc) ==
    IF variant \in DOMAIN archive
    THEN [existing |-> Append(acc.existing, archive[variant].url),
          metadata |-> IF acc.metadata = << >> THEN << archive[variant] >>
                       ELSE acc.metadata]
    ELSE acc

\* the first n iterations of that loop against one archive value
RECURSIVE scan(_, _, _)
scan(archive, vs, n) ==
    IF n = 0 THEN [existing |-> << >>, metadata |-> << >>]
    ELSE lookup(archive, vs[n], scan(archive, vs, n - 1))

\* the json! body of handle_has_git_repo_req; meta is the Option metadata
git_response(ex, meta) ==
    IF meta # << >>
    THEN [exists |-> ex # << >>, existing |-> ex, metadata |-> meta[1]]
    ELSE [exists |-> ex # << >>, existing |-> ex]

\* the two identifiers are compared as they are
repo_matches_exactly(repo, query) == repo = query

\* the closure of the any() of handle_has_huggingface_repo_req
repo_matches(repo, query) == to_lowercase(repo) = to_lowercase(query)

\* the json! body of handle_has_huggingface_repo_req
hf_response(found) == [exists |-> found]

\* the in-band error bodies of run
error_response(msg) == [error |-> msg]

\* no response has been sent yet
NoResponse == [none |-> TRUE]

\* ------------------------------------------------------------- input data
X == <<"x">>

\* an archive line "url,p<t>,c<t>,d<t>,f<t>"
Line(url, t) ==
    url \o <<COMMA, "p", t, COMMA, "c", t, COMMA, "d", t, COMMA, "f", t>>

File(lines) == [lines |-> lines, readable |-> TRUE]

Unreadable == [lines |-> << >>, readable |-> FALSE]

\* two well-formed archives whose keys are disjoint variants of "x"
GitFileA == File(<< Line(HTTPS \o X \o DOTGIT, "a"), << " " >>, Line(HTTP \o X, "b") >>)

GitFileB == File(<< Line(GIT \o X, "c"), <<" ">> \o Line(to_uppercase(X), "d") >>)

\* a well-formed line followed by a line of four fields
GitFileBad == File(<< Line(HTTPS \o X \o DOTGIT, "e"), <<"x", COMMA, "p", COMMA, "c", COMMA, "d">> >>)

GitFiles == {GitFileA, GitFileB, GitFileBad, Unreadable}

HfFileA == File(<< <<"m", "/", "L">>, << >> >>)

HfFileB == File(<< <<"m", "/", "l", " ">>, <<"o", "/", "w">> >>)

HfFiles == {HfFileA, HfFileB, Unreadable}

\* the query URLs and identifiers of the requests of the server specification
ServedUrls == {to_uppercase(HTTPS \o X \o DOTGIT)}

ServedRepos == {<<"M", "/", "l">>}

\* a file is well-formed when it can be read and every line that is not blank
\* holds exactly four commas
Commas(line) == Cardinality({i \in 1..Len(line) : line[i] = COMMA})

WellFormed(file) ==
    /\ file.readable
    /\ \A i \in 1..Len(file.lines) :
          \/ \A j \in 1..Len(file.lines[i]) : IsWhitespace(file.lines[i][j])
          \/ Commas(file.lines[i]) = 4

\* ------------------------------------------------------------------ state
VARIABLES
    watch,          \* args.watch
    hf_configured,  \* args.huggingface_archive.is_some()
    git_file,       \* the git archive file on disk
    hf_file,        \* the huggingface archive file on disk
    stimuli,        \* file changes and watch errors so far
    git_archive,    \* ArchiveHandle.archive, the value in the Mutex
    git_lock,       \* holder of that Mutex: "free", "main" or "watcher"
    git_poisoned,   \* a thread panicked while holding it
    git_thread,     \* the thread spawned by load_git_archive
    git_map,        \* its local map
    git_rx,         \* the events queued in its channel
    git_tx,         \* the sender of the channel is alive
    hf_archive,     \* HuggingfaceArchiveHandle.archive
    hf_lock,
    hf_poisoned,
    hf_thread,      \* the thread spawned by load_huggingface_archive
    hf_urls,        \* its local urls
    hf_rx,
    hf_tx,
    main_pc,        \* position of the main thread in run
    served,         \* requests answered so far
    req,            \* the request being handled
    variants,       \* locals of handle_has_git_repo_req
    vi,
    existing,
    metadata,
    response,       \* the response about to be sent
    seen,           \* history: archive values held by the store during the request
    git_good,       \* history: the last well-formed file content a load or reload read
    git_missed,     \* history: a change was notified after the watcher thread died
    after_fail,     \* history: the watcher threads dead when the request was accepted
    touched,        \* history: what the handling of the request has used so far
    loaded,         \* history: the archives whose file the startup found well-formed
    logged          \* history: the watcher threads that logged a watch error

cfg_vars == << watch, hf_configured >>

env_vars == << git_file, hf_file, stimuli >>

git_store == << git_archive, git_lock, git_poisoned >>

git_watcher == << git_thread, git_map, git_rx, git_tx >>

hf_store == << hf_archive, hf_lock, hf_poisoned >>

hf_watcher == << hf_thread, hf_urls, hf_rx, hf_tx >>

locals == << req, variants, vi, existing, metadata, response >>

main_vars == << main_pc, served, locals >>

hist_vars == << seen, git_good, git_missed, after_fail, touched, loaded, logged >>

vars == << cfg_vars, env_vars, git_store, git_watcher, hf_store, hf_watcher,
           main_vars, hist_vars >>

\* ------------------------------------------------------------- requests
GIT_PATH == "/has_git_repo"

HF_PATH == "/has_huggingface_repo"

OTHER_PATH == "/"

\* a request body: json is FALSE when it is not a JSON object at all
BadBody == [url |-> << >>, repo |-> << >>, json |-> FALSE]

UrlBody(u) == [url |-> << u >>, repo |-> << >>, json |-> TRUE]

RepoBody(r) == [url |-> << >>, repo |-> << r >>, json |-> TRUE]

Request(path, body) == [path |-> path, body |-> body]

NoRequest == Request("", BadBody)

\* the requests the clients of the server specification send
Requests ==
    {Request(GIT_PATH, UrlBody(u)) : u \in ServedUrls}
      \cup {Request(HF_PATH, RepoBody(r)) : r \in ServedRepos}
      \cup {Request(GIT_PATH, BadBody), Request(HF_PATH, UrlBody(X)),
            Request(OTHER_PATH, BadBody)}

\* serde_json::from_reader::<_, HasGitRepoRequest>
ParsesAsGitRequest(body) == body.json /\ body.url # << >>

\* serde_json::from_reader::<_, HasHuggingfaceRequest>
ParsesAsHfRequest(body) == body.json /\ body.repo # << >>

\* the thread runs: recv, parse and store are its positions in the loop
Live(thread) == thread \in {"recv", "parse", "store", "assign"}

\* a panic of the main thread or an Err returned by run ends the process
ProcessAlive == main_pc \notin {"exit_err", "bad_line_panic", "poison_panic"}

\* run has reached its loop over server.incoming_requests()
Serving == ProcessAlive /\ main_pc \notin {"load_git", "load_hf", "bind"}

\* ---------------------------------------------------------------- startup
Init ==
    /\ watch \in BOOLEAN
    /\ hf_configured \in BOOLEAN
    /\ git_file \in GitFiles
    /\ hf_file \in IF hf_configured THEN HfFiles ELSE {Unreadable}
    /\ stimuli = 0
    /\ git_archive = EmptyMap /\ git_lock = "free" /\ git_poisoned = FALSE
    /\ git_thread = "none" /\ git_map = EmptyMap /\ git_rx = << >> /\ git_tx = FALSE
    /\ hf_archive = {} /\ hf_lock = "free" /\ hf_poisoned = FALSE
    /\ hf_thread = "none" /\ hf_urls = {} /\ hf_rx = << >> /\ hf_tx = FALSE
    /\ main_pc = "load_git" /\ served = 0
    /\ req = NoRequest /\ variants = << >> /\ vi = 1
    /\ existing = << >> /\ metadata = << >> /\ response = NoResponse
    /\ seen = {} /\ git_good = Unreadable /\ git_missed = FALSE /\ after_fail = {}
    /\ touched = {} /\ loaded = {} /\ logged = {}

\* load_git_archive, called by run; with or_default a failed parse is replaced
\* by an empty map.  set_up is FALSE when recommended_watcher or watch fails
LoadGitStep(or_default) ==
    /\ main_pc = "load_git"
    /\ LET r == read_and_parse_git_archive(git_file)
       IN  CASE r.status = "ok" \/ or_default ->
                   /\ git_archive' = r.map
                   /\ \E set_up \in IF watch THEN BOOLEAN ELSE {TRUE} :
                         /\ git_thread' = IF watch /\ set_up THEN "recv" ELSE "none"
                         /\ git_tx' = (watch /\ set_up)
                         /\ main_pc' = IF set_up THEN "load_hf" ELSE "exit_err"
             [] r.status = "io_error" /\ ~or_default ->
                   /\ main_pc' = "exit_err"
                   /\ UNCHANGED << git_archive, git_thread, git_tx >>
             [] r.status = "panic" /\ ~or_default ->
                   /\ main_pc' = "bad_line_panic"
                   /\ UNCHANGED << git_archive, git_thread, git_tx >>
    /\ git_good' = IF WellFormed(git_file) THEN git_file ELSE git_good
    /\ loaded' = IF WellFormed(git_file) THEN loaded \cup {"git"} ELSE loaded
    /\ UNCHANGED << cfg_vars, env_vars, git_lock, git_poisoned, git_map, git_rx,
                    hf_store, hf_watcher, served, locals, seen, git_missed, after_fail,
                    touched, logged >>

\* unwrap_or_default() in place of the ? of load_git_archive
LoadGitOrDefault == LoadGitStep(TRUE)

LoadGit == LoadGitStep(FALSE)

\* load_huggingface_archive, called by run when the path is given
LoadHf ==
    /\ main_pc = "load_hf"
    /\ LET r == read_and_parse_huggingface_archive(hf_file)
       IN  CASE ~hf_configured ->
                   /\ main_pc' = "bind"
                   /\ UNCHANGED << hf_archive, hf_thread, hf_tx >>
             [] hf_configured /\ r.status = "ok" ->
                   /\ hf_archive' = r.urls
                   /\ \E set_up \in IF watch THEN BOOLEAN ELSE {TRUE} :
                         /\ hf_thread' = IF watch /\ set_up THEN "recv" ELSE "none"
                         /\ hf_tx' = (watch /\ set_up)
                         /\ main_pc' = IF set_up THEN "bind" ELSE "exit_err"
             [] hf_configured /\ r.status = "io_error" ->
                   /\ main_pc' = "exit_err"
                   /\ UNCHANGED << hf_archive, hf_thread, hf_tx >>
    /\ loaded' = IF hf_configured /\ hf_file.readable THEN loaded \cup {"hf"} ELSE loaded
    /\ UNCHANGED << cfg_vars, env_vars, git_store, git_watcher, hf_lock, hf_poisoned,
                    hf_urls, hf_rx, served, locals, seen, git_good, git_missed,
                    after_fail, touched, logged >>

\* Server::http succeeds
Bind ==
    /\ main_pc = "bind"
    /\ main_pc' = "accept"
    /\ UNCHANGED << cfg_vars, env_vars, git_store, git_watcher, hf_store, hf_watcher,
                    served, locals, hist_vars >>

\* Server::http fails and run returns the error
BindFail ==
    /\ main_pc = "bind"
    /\ main_pc' = "exit_err"
    /\ UNCHANGED << cfg_vars, env_vars, git_store, git_watcher, hf_store, hf_watcher,
                    served, locals, hist_vars >>

\* ---------------------------------------------------------- request loop
\* the "error" strings of the in-band error bodies
PARSE_ERROR == "json parse error"

NO_HF_ARCHIVE == "instance started without huggingface archive provided"

INVALID_ENDPOINT == "invalid endpoint"

\* the huggingface handler answers "not found" when no archive was given
Route_unconfigured_not_found(r) ==
    CASE r.path = GIT_PATH /\ ParsesAsGitRequest(r.body) ->
            [pc |-> "git_variants", response |-> NoResponse, body |-> TRUE]
      [] r.path = GIT_PATH /\ ~ParsesAsGitRequest(r.body) ->
            [pc |-> "respond", response |-> error_response(PARSE_ERROR), body |-> TRUE]
      [] r.path = HF_PATH /\ ParsesAsHfRequest(r.body) /\ hf_configured ->
            [pc |-> "hf_lock", response |-> NoResponse, body |-> TRUE]
      [] r.path = HF_PATH /\ ParsesAsHfRequest(r.body) /\ ~hf_configured ->
            [pc |-> "respond", response |-> hf_response(FALSE), body |-> TRUE]
      [] r.path = HF_PATH /\ ~ParsesAsHfRequest(r.body) ->
            [pc |-> "respond", response |-> error_response(PARSE_ERROR), body |-> TRUE]
      [] r.path \notin {GIT_PATH, HF_PATH} ->
            [pc |-> "respond", response |-> error_response(INVALID_ENDPOINT), body |-> FALSE]

\* a body that does not parse is answered as a repository that is not there
Route_bad_body_not_found(r) ==
    CASE r.path = GIT_PATH /\ ParsesAsGitRequest(r.body) ->
            [pc |-> "git_variants", response |-> NoResponse, body |-> TRUE]
      [] r.path = GIT_PATH /\ ~ParsesAsGitRequest(r.body) ->
            [pc |-> "respond", response |-> git_response(<< >>, << >>), body |-> TRUE]
      [] r.path = HF_PATH /\ ParsesAsHfRequest(r.body) /\ hf_configured ->
            [pc |-> "hf_lock", response |-> NoResponse, body |-> TRUE]
      [] r.path = HF_PATH /\ ParsesAsHfRequest(r.body) /\ ~hf_configured ->
            [pc |-> "respond", response |-> error_response(NO_HF_ARCHIVE), body |-> TRUE]
      [] r.path = HF_PATH /\ ~ParsesAsHfRequest(r.body) ->
            [pc |-> "respond", response |-> hf_response(FALSE), body |-> TRUE]
      [] r.path \notin {GIT_PATH, HF_PATH} ->
            [pc |-> "respond", response |-> error_response(INVALID_ENDPOINT), body |-> FALSE]

\* the body is read before the path is matched
Route_body_read_first(r) ==
    CASE r.path = GIT_PATH /\ ParsesAsGitRequest(r.body) ->
            [pc |-> "git_variants", response |-> NoResponse, body |-> TRUE]
      [] r.path = GIT_PATH /\ ~ParsesAsGitRequest(r.body) ->
            [pc |-> "respond", response |-> error_response(PARSE_ERROR), body |-> TRUE]
      [] r.path = HF_PATH /\ ParsesAsHfRequest(r.body) /\ hf_configured ->
            [pc |-> "hf_lock", response |-> NoResponse, body |-> TRUE]
      [] r.path = HF_PATH /\ ParsesAsHfRequest(r.body) /\ ~hf_configured ->
            [pc |-> "respond", response |-> error_response(NO_HF_ARCHIVE), body |-> TRUE]
      [] r.path = HF_PATH /\ ~ParsesAsHfRequest(r.body) ->
            [pc |-> "respond", response |-> error_response(PARSE_ERROR), body |-> TRUE]
      [] r.path \notin {GIT_PATH, HF_PATH} ->
            [pc |-> "respond", response |-> error_response(INVALID_ENDPOINT), body |-> TRUE]

\* the default arm goes on to the next request without sending its response
Route_invalid_endpoint_unanswered(r) ==
    CASE r.path = GIT_PATH /\ ParsesAsGitRequest(r.body) ->
            [pc |-> "git_variants", response |-> NoResponse, body |-> TRUE]
      [] r.path = GIT_PATH /\ ~ParsesAsGitRequest(r.body) ->
            [pc |-> "respond", response |-> error_response(PARSE_ERROR), body |-> TRUE]
      [] r.path = HF_PATH /\ ParsesAsHfRequest(r.body) /\ hf_configured ->
            [pc |-> "hf_lock", response |-> NoResponse, body |-> TRUE]
      [] r.path = HF_PATH /\ ParsesAsHfRequest(r.body) /\ ~hf_configured ->
            [pc |-> "respond", response |-> error_response(NO_HF_ARCHIVE), body |-> TRUE]
      [] r.path = HF_PATH /\ ~ParsesAsHfRequest(r.body) ->
            [pc |-> "respond", response |-> error_response(PARSE_ERROR), body |-> TRUE]
      [] r.path \notin {GIT_PATH, HF_PATH} ->
            [pc |-> "accept", response |-> error_response(INVALID_ENDPOINT), body |-> FALSE]

\* the match on request.url() and the from_reader of its arm: the position the
\* main thread goes to and the response it has ready, if any
Route(r) ==
    CASE r.path = GIT_PATH /\ ParsesAsGitRequest(r.body) ->
            [pc |-> "git_variants", response |-> NoResponse, body |-> TRUE]
      [] r.path = GIT_PATH /\ ~ParsesAsGitRequest(r.body) ->
            [pc |-> "respond", response |-> error_response(PARSE_ERROR), body |-> TRUE]
      [] r.path = HF_PATH /\ ParsesAsHfRequest(r.body) /\ hf_configured ->
            [pc |-> "hf_lock", response |-> NoResponse, body |-> TRUE]
      [] r.path = HF_PATH /\ ParsesAsHfRequest(r.body) /\ ~hf_configured ->
            [pc |-> "respond", response |-> error_response(NO_HF_ARCHIVE), body |-> TRUE]
      [] r.path = HF_PATH /\ ~ParsesAsHfRequest(r.body) ->
            [pc |-> "respond", response |-> error_response(PARSE_ERROR), body |-> TRUE]
      [] r.path \notin {GIT_PATH, HF_PATH} ->
            [pc |-> "respond", response |-> error_response(INVALID_ENDPOINT), body |-> FALSE]

\* server.incoming_requests() yields request r and run dispatches it
Accept(r) ==
    /\ main_pc = "accept"
    /\ served < MaxRequests
    /\ req' = r
    /\ main_pc' = Route(r).pc
    /\ response' = Route(r).response
    /\ seen' = {git_archive}
    /\ after_fail' = {t \in {"git", "hf"} :
                         IF t = "git" THEN git_thread = "panicked" ELSE hf_thread = "panicked"}
    /\ touched' = IF Route(r).body THEN {"body"} ELSE {}
    /\ UNCHANGED << cfg_vars, env_vars, git_store, git_watcher, hf_store, hf_watcher,
                    served, variants, vi, existing, metadata, git_good, git_missed, loaded, logged >>

\* the next request of the loop is one of rs
AcceptAny(rs) == main_pc = "accept" /\ \E r \in rs : Accept(r)

\* handle_has_git_repo_req up to the variants
GitVariants ==
    /\ main_pc = "git_variants"
    /\ IF logic_error(req.body.url[1])
       THEN /\ response' = [error |-> "error handling request", details |-> "logic error"]
            /\ main_pc' = "respond"
            /\ UNCHANGED variants
       ELSE /\ variants' = variants_of(req.body.url[1])
            /\ main_pc' = "git_lock"
            /\ UNCHANGED response
    /\ UNCHANGED << cfg_vars, env_vars, git_store, git_watcher, hf_store, hf_watcher,
                    served, req, vi, existing, metadata, hist_vars >>

\* archive_handle.archive.lock().unwrap()
GitLock ==
    /\ main_pc = "git_lock"
    /\ git_lock = "free"
    /\ IF git_poisoned
       THEN main_pc' = "poison_panic" /\ UNCHANGED git_lock
       ELSE main_pc' = "git_lookup" /\ git_lock' = "main"
    /\ touched' = touched \cup {"git"}
    /\ UNCHANGED << cfg_vars, env_vars, git_archive, git_poisoned, git_watcher, hf_store,
                    hf_watcher, served, locals, seen, git_good, git_missed, after_fail, loaded, logged >>

\* one iteration of the loop over variants; the guard is held when keep is TRUE
GitLookupStep(keep) ==
    /\ main_pc = "git_lookup"
    /\ vi <= Len(variants)
    /\ git_lock \in {"main"} \cup (IF keep THEN {} ELSE {"free"})
    /\ LET r == lookup(git_archive, variants[vi],
                       [existing |-> existing, metadata |-> metadata])
       IN  existing' = r.existing /\ metadata' = r.metadata
    /\ vi' = vi + 1
    /\ git_lock' = IF keep THEN "main" ELSE "free"
    /\ UNCHANGED << cfg_vars, env_vars, git_archive, git_poisoned, git_watcher, hf_store,
                    hf_watcher, main_pc, served, req, variants, response, hist_vars >>

\* the same iteration with the guard taken and dropped inside the loop body
GitLookupRelocking == GitLookupStep(FALSE)

GitLookup == GitLookupStep(TRUE)

\* the handler takes the map out of the guard (std::mem::take) to walk it
GitUnlockTaking ==
    /\ main_pc = "git_lookup"
    /\ vi > Len(variants)
    /\ git_archive' = EmptyMap
    /\ git_lock' = "free"
    /\ response' = git_response(existing, metadata)
    /\ main_pc' = "respond"
    /\ UNCHANGED << cfg_vars, env_vars, git_poisoned, git_watcher, hf_store,
                    hf_watcher, served, req, variants, vi, existing, metadata, hist_vars >>

\* the end of the block drops the guard; the response is built
GitUnlock ==
    /\ main_pc = "git_lookup"
    /\ vi > Len(variants)
    /\ git_lock' = "free"
    /\ response' = git_response(existing, metadata)
    /\ main_pc' = "respond"
    /\ UNCHANGED << cfg_vars, env_vars, git_archive, git_poisoned, git_watcher, hf_store,
                    hf_watcher, served, req, variants, vi, existing, metadata, hist_vars >>

\* handle_has_huggingface_repo_req: archive_handle.archive.lock().unwrap()
HfLock ==
    /\ main_pc = "hf_lock"
    /\ hf_lock = "free"
    /\ IF hf_poisoned
       THEN main_pc' = "poison_panic" /\ UNCHANGED hf_lock
       ELSE main_pc' = "hf_scan" /\ hf_lock' = "main"
    /\ touched' = touched \cup {"hf"}
    /\ UNCHANGED << cfg_vars, env_vars, git_store, git_watcher, hf_archive, hf_poisoned,
                    hf_watcher, served, locals, seen, git_good, git_missed, after_fail, loaded, logged >>

\* the guard is bound in the function body and lives until the handler returns
HfScanKeepingGuard ==
    /\ main_pc = "hf_scan"
    /\ response' = hf_response(\E repo \in hf_archive :
                                  repo_matches(repo, req.body.repo[1]))
    /\ main_pc' = "respond"
    /\ UNCHANGED << cfg_vars, env_vars, git_store, git_watcher, hf_store,
                    hf_watcher, served, req, variants, vi, existing, metadata, hist_vars >>

\* the any() over the set, the drop of the guard and the response
HfScan ==
    /\ main_pc = "hf_scan"
    /\ hf_lock' = "free"
    /\ response' = hf_response(\E repo \in hf_archive :
                                  repo_matches(repo, req.body.repo[1]))
    /\ main_pc' = "respond"
    /\ UNCHANGED << cfg_vars, env_vars, git_store, git_watcher, hf_archive, hf_poisoned,
                    hf_watcher, served, req, variants, vi, existing, metadata, hist_vars >>

\* request.respond(..) succeeds; the locals of the iteration are dropped
Respond ==
    /\ main_pc = "respond"
    /\ served' = served + 1
    /\ main_pc' = "accept"
    /\ req' = NoRequest /\ variants' = << >> /\ vi' = 1
    /\ existing' = << >> /\ metadata' = << >> /\ response' = NoResponse
    /\ seen' = {} /\ after_fail' = {} /\ touched' = {}
    /\ UNCHANGED << cfg_vars, env_vars, git_store, git_watcher, hf_store, hf_watcher,
                    git_good, git_missed, loaded, logged >>

\* request.respond(..)? returns the io error out of run
RespondFail ==
    /\ main_pc = "respond"
    /\ main_pc' = "exit_err"
    /\ UNCHANGED << cfg_vars, env_vars, git_store, git_watcher, hf_store, hf_watcher,
                    served, locals, hist_vars >>

\* ------------------------------------------------------ git watcher thread
\* rx.recv() returns Ok(Ok(event)); the guard is taken here when lock_first
GitRecv(lock_first) ==
    /\ ProcessAlive
    /\ git_thread = "recv"
    /\ git_rx # << >> /\ Head(git_rx) = "event"
    /\ git_rx' = Tail(git_rx)
    /\ git_thread' = "parse"
    /\ IF lock_first
       THEN git_lock = "free" /\ git_lock' = "watcher"
       ELSE UNCHANGED git_lock
    /\ UNCHANGED << cfg_vars, env_vars, git_archive, git_poisoned, git_map, git_tx,
                    hf_store, hf_watcher, main_vars, hist_vars >>

\* the guard is taken before the file is read and parsed
GitRecvEventLocking == GitRecv(TRUE)

GitRecvEvent == GitRecv(FALSE)

\* the Ok(Err(e)) arm logs the error and leaves the loop
GitRecvErrorBreaking ==
    /\ ProcessAlive
    /\ git_thread = "recv"
    /\ git_rx # << >> /\ Head(git_rx) = "error"
    /\ git_rx' = Tail(git_rx)
    /\ git_thread' = "exited"
    /\ logged' = logged \cup {"git"}
    /\ UNCHANGED << cfg_vars, env_vars, git_store, git_map, git_tx, hf_store,
                    hf_watcher, main_vars, seen, git_good, git_missed, after_fail,
                    touched, loaded >>

\* rx.recv() returns Ok(Err(e)): the error is logged
GitRecvError ==
    /\ ProcessAlive
    /\ git_thread = "recv"
    /\ git_rx # << >> /\ Head(git_rx) = "error"
    /\ git_rx' = Tail(git_rx)
    /\ logged' = logged \cup {"git"}
    /\ UNCHANGED << cfg_vars, env_vars, git_store, git_thread, git_map, git_tx, hf_store,
                    hf_watcher, main_vars, seen, git_good, git_missed, after_fail,
                    touched, loaded >>

\* the Err arm of recv reloads once more in place of the break
GitRecvClosedReloading ==
    /\ ProcessAlive
    /\ git_thread = "recv"
    /\ git_rx = << >> /\ ~git_tx
    /\ git_thread' = "parse"
    /\ UNCHANGED << cfg_vars, env_vars, git_store, git_map, git_rx, git_tx, hf_store,
                    hf_watcher, main_vars, hist_vars >>

\* rx.recv() returns Err: the channel is empty and disconnected; break
GitRecvClosed ==
    /\ ProcessAlive
    /\ git_thread = "recv"
    /\ git_rx = << >> /\ ~git_tx
    /\ git_thread' = "exited"
    /\ UNCHANGED << cfg_vars, env_vars, git_store, git_map, git_rx, git_tx, hf_store,
                    hf_watcher, main_vars, hist_vars >>

\* read_and_parse_git_archive(&path).unwrap(): an Err or the panic of a bad line
\* unwinds the thread, which drops rx and any guard it holds
GitReload(or_default) ==
    /\ ProcessAlive
    /\ git_thread = "parse"
    /\ LET r == read_and_parse_git_archive(git_file)
       IN  IF r.status = "ok" \/ or_default
           THEN /\ git_map' = r.map
                /\ git_thread' = "store"
                /\ UNCHANGED << git_rx, git_lock, git_poisoned >>
           ELSE /\ git_thread' = "panicked"
                /\ git_rx' = << >>
                /\ git_poisoned' = (git_poisoned \/ git_lock = "watcher")
                /\ git_lock' = IF git_lock = "watcher" THEN "free" ELSE git_lock
                /\ UNCHANGED git_map
    /\ git_good' = IF WellFormed(git_file) THEN git_file ELSE git_good
    /\ UNCHANGED << cfg_vars, env_vars, git_archive, git_tx, hf_store, hf_watcher,
                    main_vars, seen, git_missed, after_fail, touched, loaded, logged >>

\* unwrap_or_default() in place of unwrap(): a failed parse stores an empty map
GitReloadParseOrDefault == GitReload(TRUE)

GitReloadParse == GitReload(FALSE)

\* archive_clone.lock().unwrap()
GitStoreLock ==
    /\ ProcessAlive
    /\ git_thread = "store"
    /\ git_lock = "free"
    /\ IF git_poisoned
       THEN git_thread' = "panicked" /\ git_rx' = << >> /\ UNCHANGED git_lock
       ELSE git_thread' = "assign" /\ git_lock' = "watcher" /\ UNCHANGED git_rx
    /\ UNCHANGED << cfg_vars, env_vars, git_archive, git_poisoned, git_map, git_tx,
                    hf_store, hf_watcher, main_vars, hist_vars >>

\* *guard = map; the guard is dropped at the end of the statement
GitStoreAssign ==
    /\ ProcessAlive
    /\ git_thread = "assign"
    /\ git_archive' = git_map
    /\ git_map' = EmptyMap
    /\ git_lock' = "free"
    /\ git_thread' = "recv"
    /\ seen' = IF seen = {} THEN {} ELSE seen \cup {git_map}
    /\ UNCHANGED << cfg_vars, env_vars, git_poisoned, git_rx, git_tx, hf_store, hf_watcher,
                    main_vars, git_good, git_missed, after_fail, touched, loaded, logged >>

\* ----------------------------------------------- huggingface watcher thread
\* the guard is taken before the file is read and parsed
HfRecvEventLocking ==
    /\ ProcessAlive
    /\ hf_thread = "recv"
    /\ hf_rx # << >> /\ Head(hf_rx) = "event"
    /\ hf_rx' = Tail(hf_rx)
    /\ hf_thread' = "parse"
    /\ hf_lock = "free" /\ hf_lock' = "watcher"
    /\ UNCHANGED << cfg_vars, env_vars, git_store, git_watcher, hf_archive, hf_poisoned,
                    hf_urls, hf_tx, main_vars, hist_vars >>

HfRecvEvent ==
    /\ ProcessAlive
    /\ hf_thread = "recv"
    /\ hf_rx # << >> /\ Head(hf_rx) = "event"
    /\ hf_rx' = Tail(hf_rx)
    /\ hf_thread' = "parse"
    /\ UNCHANGED << cfg_vars, env_vars, git_store, git_watcher, hf_store, hf_urls, hf_tx,
                    main_vars, hist_vars >>

HfRecvError ==
    /\ ProcessAlive
    /\ hf_thread = "recv"
    /\ hf_rx # << >> /\ Head(hf_rx) = "error"
    /\ hf_rx' = Tail(hf_rx)
    /\ logged' = logged \cup {"hf"}
    /\ UNCHANGED << cfg_vars, env_vars, git_store, git_watcher, hf_store, hf_thread, hf_urls,
                    hf_tx, main_vars, seen, git_good, git_missed, after_fail, touched,
                    loaded >>

HfRecvClosed ==
    /\ ProcessAlive
    /\ hf_thread = "recv"
    /\ hf_rx = << >> /\ ~hf_tx
    /\ hf_thread' = "exited"
    /\ UNCHANGED << cfg_vars, env_vars, git_store, git_watcher, hf_store, hf_urls, hf_rx,
                    hf_tx, main_vars, hist_vars >>

\* read_and_parse_huggingface_archive(&path).unwrap()
HfReloadParse ==
    /\ ProcessAlive
    /\ hf_thread = "parse"
    /\ LET r == read_and_parse_huggingface_archive(hf_file)
       IN  IF r.status = "ok"
           THEN /\ hf_urls' = r.urls
                /\ hf_thread' = "store"
                /\ UNCHANGED << hf_rx, hf_lock, hf_poisoned >>
           ELSE /\ hf_thread' = "panicked"
                /\ hf_rx' = << >>
                /\ hf_poisoned' = (hf_poisoned \/ hf_lock = "watcher")
                /\ hf_lock' = IF hf_lock = "watcher" THEN "free" ELSE hf_lock
                /\ UNCHANGED hf_urls
    /\ UNCHANGED << cfg_vars, env_vars, git_store, git_watcher, hf_archive, hf_tx,
                    main_vars, hist_vars >>

\* the reload of the huggingface archive goes through the mutex of the git store
HfStoreLockOnGitStore ==
    /\ ProcessAlive
    /\ hf_thread = "store"
    /\ git_lock = "free"
    /\ hf_thread' = "assign"
    /\ git_lock' = "watcher"
    /\ UNCHANGED << cfg_vars, env_vars, git_archive, git_poisoned, git_watcher, hf_store,
                    hf_urls, hf_rx, hf_tx, main_vars, hist_vars >>

HfStoreLock ==
    /\ ProcessAlive
    /\ hf_thread = "store"
    /\ hf_lock = "free"
    /\ IF hf_poisoned
       THEN hf_thread' = "panicked" /\ hf_rx' = << >> /\ UNCHANGED hf_lock
       ELSE hf_thread' = "assign" /\ hf_lock' = "watcher" /\ UNCHANGED hf_rx
    /\ UNCHANGED << cfg_vars, env_vars, git_store, git_watcher, hf_archive, hf_poisoned,
                    hf_urls, hf_tx, main_vars, hist_vars >>

HfStoreAssign ==
    /\ ProcessAlive
    /\ hf_thread = "assign"
    /\ hf_archive' = hf_urls
    /\ hf_urls' = {}
    /\ hf_lock' = "free"
    /\ hf_thread' = "recv"
    /\ UNCHANGED << cfg_vars, env_vars, git_store, git_watcher, hf_poisoned, hf_rx, hf_tx,
                    main_vars, hist_vars >>

\* ------------------------------------------------------------ environment
\* the git archive file is replaced by f; the notify watcher sends an event,
\* which is lost when the receiving thread is gone
WriteGit(f) ==
    /\ Serving
    /\ stimuli < MaxStimuli
    /\ f # git_file
    /\ git_file' = f
    /\ stimuli' = stimuli + 1
    /\ git_rx' = IF git_tx /\ Live(git_thread) THEN Append(git_rx, "event") ELSE git_rx
    /\ git_missed' = (git_missed \/ (git_tx /\ git_thread = "panicked"))
    /\ UNCHANGED << cfg_vars, hf_file, git_store, git_thread, git_map, git_tx, hf_store,
                    hf_watcher, main_vars, seen, git_good, after_fail, touched, loaded, logged >>

WriteHf(f) ==
    /\ Serving
    /\ stimuli < MaxStimuli
    /\ hf_configured
    /\ f # hf_file
    /\ hf_file' = f
    /\ stimuli' = stimuli + 1
    /\ hf_rx' = IF hf_tx /\ Live(hf_thread) THEN Append(hf_rx, "event") ELSE hf_rx
    /\ UNCHANGED << cfg_vars, git_file, git_store, git_watcher, hf_store, hf_thread, hf_urls,
                    hf_tx, main_vars, hist_vars >>

\* the notify watcher reports an error on the git channel
WatchErrorGit ==
    /\ Serving
    /\ stimuli < MaxStimuli
    /\ git_tx /\ Live(git_thread)
    /\ git_rx' = Append(git_rx, "error")
    /\ stimuli' = stimuli + 1
    /\ UNCHANGED << cfg_vars, git_file, hf_file, git_store, git_thread, git_map, git_tx,
                    hf_store, hf_watcher, main_vars, hist_vars >>

WatchErrorHf ==
    /\ Serving
    /\ stimuli < MaxStimuli
    /\ hf_tx /\ Live(hf_thread)
    /\ hf_rx' = Append(hf_rx, "error")
    /\ stimuli' = stimuli + 1
    /\ UNCHANGED << cfg_vars, git_file, hf_file, git_store, git_watcher, hf_store, hf_thread,
                    hf_urls, hf_tx, main_vars, hist_vars >>

\* the sending side of the git channel goes away
CloseGit ==
    /\ Serving
    /\ stimuli < MaxStimuli
    /\ git_tx
    /\ git_tx' = FALSE
    /\ stimuli' = stimuli + 1
    /\ UNCHANGED << cfg_vars, git_file, hf_file, git_store, git_thread, git_map, git_rx, hf_store,
                    hf_watcher, main_vars, hist_vars >>

CloseHf ==
    /\ Serving
    /\ stimuli < MaxStimuli
    /\ hf_tx
    /\ hf_tx' = FALSE
    /\ stimuli' = stimuli + 1
    /\ UNCHANGED << cfg_vars, git_file, hf_file, git_store, git_watcher, hf_store, hf_thread, hf_urls,
                    hf_rx, main_vars, hist_vars >>

\* ---------------------------------------------------------- specification
Next ==
    \/ LoadGit
    \/ LoadHf
    \/ Bind
    \/ BindFail
    \/ AcceptAny(Requests)
    \/ GitVariants
    \/ GitLock
    \/ GitLookup
    \/ GitUnlock
    \/ HfLock
    \/ HfScan
    \/ Respond
    \/ RespondFail
    \/ GitRecvEvent
    \/ GitRecvError
    \/ GitRecvClosed
    \/ GitReloadParse
    \/ GitStoreLock
    \/ GitStoreAssign
    \/ HfRecvEvent
    \/ HfRecvError
    \/ HfRecvClosed
    \/ HfReloadParse
    \/ HfStoreLock
    \/ HfStoreAssign
    \/ \E f \in GitFiles : WriteGit(f)
    \/ \E f \in HfFiles : WriteHf(f)
    \/ WatchErrorGit
    \/ WatchErrorHf
    \/ CloseGit
    \/ CloseHf

Spec == Init /\ [][Next]_vars

\* ------------------------------------- the handler on its own, as a function
Tokens == {HTTP, HTTPS, GIT, DOTGIT, X}

\* the concatenations of at most n tokens
RECURSIVE Concats(_)
Concats(n) ==
    IF n = 0 THEN {<< >>}
    ELSE LET prev == Concats(n - 1)
         IN  prev \cup {p \o t : p \in prev, t \in Tokens}

WithUpperCase(urls) == urls \cup {to_uppercase(u) : u \in urls}

\* the query URLs of the normalisation specification
VariantUrls == WithUpperCase(Concats(MaxParts))

\* the query URLs and archive lines of the lookup specification
HandlerUrls == WithUpperCase(Concats(MaxQueryParts))

HandlerLines ==
    {Line(HTTPS \o X \o DOTGIT, "a"), Line(to_uppercase(HTTP \o X), "b"),
     Line(X \o DOTGIT, "c"), Line(X, "d"), Line(to_uppercase(X), "e")}

RECURSIVE LineSeqs(_)
LineSeqs(n) ==
    IF n = 0 THEN {<< >>}
    ELSE LET prev == LineSeqs(n - 1)
         IN  prev \cup {Append(p, l) : p \in prev, l \in HandlerLines}

HandlerFiles == {File(ls) : ls \in LineSeqs(MaxLines)}

\* the server without watcher threads, waiting in its request loop after it
\* loaded the git archive from file
ServingFrom(file) ==
    /\ watch = FALSE
    /\ hf_configured = FALSE
    /\ git_file = file
    /\ hf_file = Unreadable
    /\ stimuli = 0
    /\ git_archive = read_and_parse_git_archive(file).map
    /\ git_lock = "free" /\ git_poisoned = FALSE
    /\ git_thread = "none" /\ git_map = EmptyMap /\ git_rx = << >> /\ git_tx = FALSE
    /\ hf_archive = {} /\ hf_lock = "free" /\ hf_poisoned = FALSE
    /\ hf_thread = "none" /\ hf_urls = {} /\ hf_rx = << >> /\ hf_tx = FALSE
    /\ main_pc = "accept" /\ served = 0
    /\ req = NoRequest /\ variants = << >> /\ vi = 1
    /\ existing = << >> /\ metadata = << >> /\ response = NoResponse
    /\ seen = {} /\ git_good = file /\ git_missed = FALSE /\ after_fail = {}
    /\ touched = {} /\ loaded = {"git"} /\ logged = {}

\* handle_has_git_repo_req from its call to its return
HandlerSteps == GitVariants \/ GitLock \/ GitLookup \/ GitUnlock

VariantsInit == ServingFrom(GitFileA)

VariantsNext ==
    \/ AcceptAny({Request(GIT_PATH, UrlBody(u)) : u \in VariantUrls})
    \/ HandlerSteps

\* every query URL of VariantUrls against one archive
SpecVariants == VariantsInit /\ [][VariantsNext]_vars

HandlerInit == \E file \in HandlerFiles : ServingFrom(file)

HandlerNext ==
    \/ AcceptAny({Request(GIT_PATH, UrlBody(u)) : u \in HandlerUrls})
    \/ HandlerSteps

\* every query URL of HandlerUrls against every archive of HandlerFiles
SpecHandler == HandlerInit /\ [][HandlerNext]_vars

\* the query URLs of the stripping specification
StripUrls == WithUpperCase(Concats(MaxStripParts))

StripNext ==
    \/ AcceptAny({Request(GIT_PATH, UrlBody(u)) : u \in StripUrls})
    \/ GitVariants

\* every query URL of StripUrls through the stripping of handle_has_git_repo_req
SpecStrip == VariantsInit /\ [][StripNext]_vars

\* the archives of the respelling specification: none or one record, and two
\* records that both match one query
RespellFiles ==
    {File(ls) : ls \in LineSeqs(1)}
      \cup {File(<< Line(HTTPS \o X \o DOTGIT, "a"), Line(X, "d") >>)}

RespellInit == \E file \in RespellFiles : ServingFrom(file)

\* every query URL of HandlerUrls against every archive of RespellFiles
SpecRespell == RespellInit /\ [][HandlerNext]_vars

\* ------------------- handle_has_huggingface_repo_req on its own, as a function
\* the lines of the identifier files and the identifiers queried
HfLines ==
    {X, to_uppercase(X \o DOTGIT), HTTPS \o X, <<" ">> \o X \o <<" ">>,
     <<"m", "/", "L">>, << >>}

HfQueries ==
    WithUpperCase({X, X \o DOTGIT, HTTPS \o X, X \o <<" ">>, <<"m", "/", "l">>})

RECURSIVE HfLineSeqs(_)
HfLineSeqs(n) ==
    IF n = 0 THEN {<< >>}
    ELSE LET prev == HfLineSeqs(n - 1)
         IN  prev \cup {Append(p, l) : p \in prev, l \in HfLines}

HfHandlerFiles == {File(ls) : ls \in HfLineSeqs(MaxLines)}

\* the server without watcher threads, waiting in its request loop after it
\* loaded the identifiers from file
ServingHfFrom(file) ==
    /\ watch = FALSE
    /\ hf_configured = TRUE
    /\ git_file = GitFileA
    /\ hf_file = file
    /\ stimuli = 0
    /\ git_archive = read_and_parse_git_archive(GitFileA).map
    /\ git_lock = "free" /\ git_poisoned = FALSE
    /\ git_thread = "none" /\ git_map = EmptyMap /\ git_rx = << >> /\ git_tx = FALSE
    /\ hf_archive = read_and_parse_huggingface_archive(file).urls
    /\ hf_lock = "free" /\ hf_poisoned = FALSE
    /\ hf_thread = "none" /\ hf_urls = {} /\ hf_rx = << >> /\ hf_tx = FALSE
    /\ main_pc = "accept" /\ served = 0
    /\ req = NoRequest /\ variants = << >> /\ vi = 1
    /\ existing = << >> /\ metadata = << >> /\ response = NoResponse
    /\ seen = {} /\ git_good = GitFileA /\ git_missed = FALSE /\ after_fail = {}
    /\ touched = {} /\ loaded = {"git", "hf"} /\ logged = {}

HfHandlerInit == \E file \in HfHandlerFiles : ServingHfFrom(file)

HfHandlerNext ==
    \/ AcceptAny({Request(HF_PATH, RepoBody(r)) : r \in HfQueries})
    \/ HfLock
    \/ HfScan

\* every identifier of HfQueries against every file of HfHandlerFiles
SpecHfHandler == HfHandlerInit /\ [][HfHandlerNext]_vars

\* ------------------------------ read_and_parse_git_archive on its own
\* the entries written to the archive files: three URLs, two of which differ
\* in case only
ParseEntries ==
    {[url |-> X, t |-> "a"], [url |-> to_uppercase(X), t |-> "b"],
     [url |-> HTTPS \o X \o DOTGIT, t |-> "c"]}

\* an entry as a line of the file, bare or between whitespace
Rendered(e) == {Line(e.url, e.t), <<" ">> \o Line(e.url, e.t) \o <<"\t">>}

BlankLines == {<< >>, <<" ", "\t">>}

\* lines of four fields, of six fields and of one field
BadLines ==
    {<<"x", COMMA, "p", COMMA, "c", COMMA, "d">>, Line(X, "a") \o <<COMMA, "z">>, X}

ParseLines == UNION {Rendered(e) : e \in ParseEntries} \cup BlankLines \cup BadLines

RECURSIVE ParseLineSeqs(_)
ParseLineSeqs(n) ==
    IF n = 0 THEN {<< >>}
    ELSE LET prev == ParseLineSeqs(n - 1)
         IN  prev \cup {Append(p, l) : p \in prev, l \in ParseLines}

ParseFiles == {File(ls) : ls \in ParseLineSeqs(MaxParseLines)} \cup {Unreadable}

\* run is entered with the git archive path naming one of ParseFiles
ParseInit ==
    /\ watch = FALSE
    /\ hf_configured = FALSE
    /\ git_file \in ParseFiles
    /\ hf_file = Unreadable
    /\ stimuli = 0
    /\ git_archive = EmptyMap /\ git_lock = "free" /\ git_poisoned = FALSE
    /\ git_thread = "none" /\ git_map = EmptyMap /\ git_rx = << >> /\ git_tx = FALSE
    /\ hf_archive = {} /\ hf_lock = "free" /\ hf_poisoned = FALSE
    /\ hf_thread = "none" /\ hf_urls = {} /\ hf_rx = << >> /\ hf_tx = FALSE
    /\ main_pc = "load_git" /\ served = 0
    /\ req = NoRequest /\ variants = << >> /\ vi = 1
    /\ existing = << >> /\ metadata = << >> /\ response = NoResponse
    /\ seen = {} /\ git_good = Unreadable /\ git_missed = FALSE /\ after_fail = {}
    /\ touched = {} /\ loaded = {} /\ logged = {}

ParseNext == LoadGit

\* every file of ParseFiles through load_git_archive
SpecParse == ParseInit /\ [][ParseNext]_vars

\* ================================================================ claims
Range(s) == {s[i] : i \in 1..Len(s)}

IsLowerCase(s) == \A i \in 1..Len(s) : s[i] \notin DOMAIN LowerMap

\* the handler has a success body ready for the current /has_git_repo request
GitResponded ==
    main_pc = "respond" /\ req.path = GIT_PATH /\ "exists" \in DOMAIN response

\* the query URL of the current /has_git_repo request
Url == req.body.url[1]

\* the body handle_has_git_repo_req returns when every variant is looked up in idx
Evaluated(idx) ==
    LET r == scan(idx, variants, Len(variants))
    IN  git_response(r.existing, r.metadata)

\* C1: every success response of CheckGitRepo equals the evaluation of all its
\* variants against one single value the store held during the request; no
\* response mixes lookups from two values.
C1_ReloadAtomic == GitResponded => \E idx \in seen : response = Evaluated(idx)

\* a reload replaced the index while the request was being handled, and the
\* two values answer differently
C1_Witness ==
    /\ GitResponded
    /\ response.exists
    /\ \E a, b \in seen : Evaluated(a) # Evaluated(b)

\* the parse of each file of the server specification
ParsedGitFiles == [f \in GitFiles |-> read_and_parse_git_archive(f).map]

\* C2: a failed reload leaves the stored index as it is: the store always holds
\* the parse of the last well-formed file content a load or reload read (a
\* reload that parsed a newer one holds it until it is stored), and a request
\* accepted after a failed reload is answered from that index.
C2_StaleOnFailure ==
    LET good == IF git_good \in GitFiles THEN ParsedGitFiles[git_good]
                ELSE read_and_parse_git_archive(git_good).map
    IN  /\ (git_thread \notin {"store", "assign"} /\ WellFormed(git_good))
             => git_archive = good
        /\ git_thread \in {"store", "assign"} => git_map = good
        /\ ("git" \in after_fail /\ GitResponded) => response = Evaluated(good)

\* a request accepted after a failed reload finds the repository in the index
\* the failed reload left in place
C2_Witness == "git" \in after_fail /\ GitResponded /\ response.exists

\* C3: a notification that arrives after a failed reload and finds a well-formed
\* file has the index replaced by the parse of that file: it never happens that
\* the watcher thread is gone with such a notification unanswered.
C3_ReloadAfterFailure ==
    ~ /\ git_thread = "panicked"
      /\ git_missed
      /\ WellFormed(git_file)
      /\ git_archive # read_and_parse_git_archive(git_file).map

\* C4: a failed reload never takes down the request path: no store lock is ever
\* poisoned or left held by a dead watcher thread, and the main thread never
\* panics on a lock.
C4_ServingSurvives ==
    /\ ~git_poisoned /\ ~hf_poisoned
    /\ main_pc # "poison_panic"
    /\ git_thread = "panicked" => git_lock # "watcher"
    /\ hf_thread = "panicked" => hf_lock # "watcher"

\* both reloads have failed and a request accepted afterwards has its response
C4_Witness ==
    /\ after_fail = {"git", "hf"}
    /\ main_pc = "respond"
    /\ "exists" \in DOMAIN response

\* C5: a query with the exact raw URL of a stored record finds it: the variants
\* contain the lowercased URL, exists is true and the URL is in existing.
C5_RoundTrip ==
    (GitResponded /\ \E k \in DOMAIN git_archive : git_archive[k].url = Url)
      => /\ to_lowercase(Url) \in Range(variants)
         /\ response.exists
         /\ Url \in Range(response.existing)

\* the variants that are keys of the index, by position
Matching == {i \in 1..Len(variants) : variants[i] \in DOMAIN git_archive}

\* C6: exists is true iff some variant is a key of the index, and existing holds
\* the url of the record of each matching variant, once per matching variant,
\* and nothing else.
C6_ExistingIsTheMatches ==
    GitResponded =>
      /\ response.exists <=> Matching # {}
      /\ Len(response.existing) = Cardinality(Matching)
      /\ \A w \in Range(response.existing) \cup {git_archive[variants[i]].url : i \in Matching} :
           Cardinality({j \in 1..Len(response.existing) : response.existing[j] = w})
             = Cardinality({i \in Matching : git_archive[variants[i]].url = w})

\* two variants match, one of them a record stored with an upper-case URL
C6_Witness ==
    /\ GitResponded
    /\ Cardinality(Matching) >= 2
    /\ \E w \in Range(response.existing) : ~IsLowerCase(w)

\* lowercase(u) without one trailing ".git"
ClaimedBase(u) ==
    LET lo == to_lowercase(u)
    IN  IF \E p \in {SubSeq(lo, 1, Len(lo) - Len(DOTGIT))} : lo = p \o DOTGIT
        THEN SubSeq(lo, 1, Len(lo) - Len(DOTGIT))
        ELSE lo

\* and then without one leading http://, https:// or git://
ClaimedStripped(u) ==
    LET b == ClaimedBase(u)
        rests == {r \in {SubSeq(b, n + 1, Len(b)) : n \in 0..Len(b)} :
                    \E s \in {HTTP, HTTPS, GIT} : b = s \o r}
    IN  IF rests = {} THEN b ELSE CHOOSE r \in rests : TRUE

\* C7: normalisation yields exactly 7 strings, all lowercase: scheme + stripped +
\* ".git" and scheme + stripped for each of the three schemes, and stripped.
C7_SevenVariants ==
    (req.path = GIT_PATH /\ main_pc \notin {"accept", "git_variants"}) =>
      LET st == ClaimedStripped(Url)
      IN  /\ Len(variants) = 7
          /\ \A i \in 1..7 : IsLowerCase(variants[i])
          /\ Range(variants) = {s \o st \o DOTGIT : s \in {HTTP, HTTPS, GIT}}
                                 \cup {s \o st : s \in {HTTP, HTTPS, GIT}} \cup {st}

\* an upper-case URL with a scheme and a suffix has been normalised
C7_Witness ==
    /\ main_pc = "git_lock"
    /\ Url = to_uppercase(HTTPS \o X \o DOTGIT)
    /\ variants[7] = X

\* C8: at most one suffix and at most one scheme match any URL, so the handler
\* never fails with "logic error" and returns a body with exists and existing.
C8_NoLogicError ==
    (req.path = GIT_PATH /\ main_pc # "accept") =>
      /\ Len(suffix_matches(Url)) <= 1
      /\ Len(schema_matches(Url)) <= 1
      /\ "error" \notin DOMAIN response
      /\ main_pc = "respond" => {"exists", "existing"} \subseteq DOMAIN response

\* the nested form http://https://x.git.git has been answered
C8_Witness ==
    /\ GitResponded
    /\ Url = HTTP \o HTTPS \o X \o DOTGIT \o DOTGIT

\* C9: in a success response exists, a non-empty existing and the presence of
\* metadata agree; without a matching variant there is none of them.
C9_PartsAgree ==
    GitResponded =>
      /\ response.exists <=> response.existing # << >>
      /\ response.exists <=> "metadata" \in DOMAIN response
      /\ Matching = {} => /\ ~response.exists
                          /\ response.existing = << >>
                          /\ DOMAIN response = {"exists", "existing"}

\* a response with metadata, reached for a query that matches a record
C9_Witness == GitResponded /\ response.exists /\ "metadata" \in DOMAIN response

\* C10: the metadata of a response is one record of the index, stored under one
\* of the variants, all five fields of it, and its url is in existing.
C10_MetadataOfOneMatch ==
    (GitResponded /\ "metadata" \in DOMAIN response) =>
      /\ \E i \in Matching : response.metadata = git_archive[variants[i]]
      /\ response.metadata.url \in Range(response.existing)

\* several records match and the metadata is of one stored in upper case
C10_Witness ==
    /\ GitResponded
    /\ "metadata" \in DOMAIN response
    /\ Len(response.existing) >= 2
    /\ ~IsLowerCase(response.metadata.url)

\* the handler has a success body ready for the current /has_huggingface_repo
\* request
HfResponded ==
    main_pc = "respond" /\ req.path = HF_PATH /\ "exists" \in DOMAIN response

\* the identifier of the current /has_huggingface_repo request
Repo == req.body.repo[1]

\* two characters that are equal or the two cases of one letter
SameLetter(c, d) ==
    \/ c = d
    \/ c \in DOMAIN LowerMap /\ LowerMap[c] = d
    \/ d \in DOMAIN LowerMap /\ LowerMap[d] = c

SameIgnoringCase(a, b) ==
    Len(a) = Len(b) /\ \A i \in 1..Len(a) : SameLetter(a[i], b[i])

\* C11: CheckHuggingfaceRepo answers exists = true exactly when some stored
\* identifier equals the queried one character by character up to the case of
\* letters, so queries that differ only in case are answered alike and nothing
\* (scheme, ".git", whitespace) is stripped from the query.
C11_HfCaseInsensitive ==
    HfResponded =>
        /\ response = [exists |-> \E s \in hf_archive : SameIgnoringCase(s, Repo)]
        /\ (Len(Repo) > Len(X) /\ hf_archive \subseteq {X, to_uppercase(X)})
              => ~response.exists

\* the query "x.git" is found through the stored "X.GIT", from which it
\* differs in case only
C11_Witness ==
    /\ HfResponded
    /\ response.exists
    /\ Repo \notin hf_archive
    /\ Repo = X \o DOTGIT

\* a request has been accepted and its handling has not returned to the loop
Handling == req # NoRequest

Recognized(r) == r.path \in {GIT_PATH, HF_PATH}

\* the body of r parses into the shape its path expects
BodyParses(r) ==
    IF r.path = GIT_PATH THEN ParsesAsGitRequest(r.body) ELSE ParsesAsHfRequest(r.body)

\* the main thread is about to send the response or failed to send it
Answering == main_pc \in {"respond", "exit_err"}

\* C12 as stated: on a server started without a huggingface archive every
\* request to /has_huggingface_repo, whatever its body, is answered with the
\* error "instance started without huggingface archive provided".
C12_AlwaysNoArchiveError ==
    (Handling /\ req.path = HF_PATH /\ ~hf_configured)
        => response = error_response(NO_HF_ARCHIVE)

\* C12: on a server started without a huggingface archive a request to
\* /has_huggingface_repo whose body parses is answered with the error
\* "instance started without huggingface archive provided", one whose body
\* does not parse with "json parse error"; neither is answered with a body
\* carrying exists, and the handler is not entered.
C12_NoArchiveError ==
    (Handling /\ req.path = HF_PATH /\ ~hf_configured)
        => /\ Answering
           /\ response = error_response(IF BodyParses(req) THEN NO_HF_ARCHIVE
                                         ELSE PARSE_ERROR)
           /\ "exists" \notin DOMAIN response
           /\ "hf" \notin touched

\* a well-formed query for an identifier is refused for want of an archive
C12_Witness ==
    /\ main_pc = "respond"
    /\ req.path = HF_PATH
    /\ BodyParses(req)
    /\ ~hf_configured
    /\ response = error_response(NO_HF_ARCHIVE)

\* C13: a request on a recognized path whose body does not parse is answered
\* with "json parse error", never with a body carrying exists, and neither
\* store is locked for it.
C13_ParseErrorDistinct ==
    (Handling /\ Recognized(req) /\ ~BodyParses(req))
        => /\ Answering
           /\ response = error_response(PARSE_ERROR)
           /\ "exists" \notin DOMAIN response
           /\ touched = {"body"}
           /\ git_lock # "main" /\ hf_lock # "main"

\* an unparseable body on /has_git_repo is about to be answered while the
\* server holds an archive
C13_Witness ==
    /\ main_pc = "respond"
    /\ req.path = GIT_PATH
    /\ ~BodyParses(req)
    /\ DOMAIN git_archive # {}
    /\ response = error_response(PARSE_ERROR)

\* C14: a request on any other path than /has_git_repo and
\* /has_huggingface_repo is answered with "invalid endpoint"; its body is not
\* read and neither store is locked for it.
C14_InvalidEndpoint ==
    (Handling /\ ~Recognized(req))
        => /\ Answering
           /\ response = error_response(INVALID_ENDPOINT)
           /\ touched = {}
           /\ git_lock # "main" /\ hf_lock # "main"

\* a request on another path is about to be answered
C14_Witness ==
    /\ main_pc = "respond"
    /\ req.path = OTHER_PATH
    /\ response = error_response(INVALID_ENDPOINT)

\* C15: an error of one request never stops the loop: run does not return
\* while it handles a request.
C15_ErrorsLocal == ~(main_pc = "exit_err" /\ Handling)

\* load_git_archive has returned or panicked
Loaded == main_pc # "load_git"

Blank(line) == \A j \in 1..Len(line) : IsWhitespace(line[j])

\* a line that is not blank and does not hold exactly four commas
BadLine(line) == ~Blank(line) /\ Commas(line) # 4

NonBlank(lines) == SelectSeq(lines, LAMBDA l : ~Blank(l))

\* C16: parsing the git archive is all-or-nothing: one line that is not blank
\* and has not exactly 5 fields, wherever it stands, makes the parse fail and
\* leaves no index; blank lines never make it fail and add no entry.
C16_AllOrNothing ==
    LET lines == git_file.lines
    IN  (Loaded /\ git_file.readable) =>
          IF \E i \in 1..Len(lines) : BadLine(lines[i])
          THEN main_pc = "bad_line_panic" /\ git_archive = EmptyMap
          ELSE /\ main_pc = "load_hf"
               /\ Cardinality(DOMAIN git_archive) <= Len(NonBlank(lines))
               /\ git_archive = read_and_parse_git_archive(File(NonBlank(lines))).map

\* a line of the wrong shape between two well-formed lines made the parse fail
C16_Witness ==
    LET lines == git_file.lines
    IN  /\ main_pc = "bad_line_panic"
        /\ Len(lines) = 3
        /\ Commas(lines[1]) = 4 /\ BadLine(lines[2]) /\ Commas(lines[3]) = 4

\* the entry a well-formed line was written from, and the record it stands for
EntryOf(line) == CHOOSE e \in ParseEntries : line \in Rendered(e)

RecordOf(e) ==
    [url |-> e.url, path |-> <<"p", e.t>>, commit_hash |-> <<"c", e.t>>,
     commit_date |-> <<"d", e.t>>, last_fetch |-> <<"f", e.t>>]

\* the entries of the lines of the file that are not blank, in file order
FileEntries == [i \in 1..Len(NonBlank(git_file.lines)) |-> EntryOf(NonBlank(git_file.lines)[i])]

\* C17: the parsed index holds one record per lowercased raw URL: every key is
\* the URL of its record in lower case with nothing stripped, the record
\* keeps the URL in its original case, each line's URL has a key, and of the
\* lines whose URLs differ in case only the last one in the file is stored.
C17_LastLineWins ==
    main_pc = "load_hf" =>
        /\ \A k \in DOMAIN git_archive :
              IsLowerCase(k) /\ SameIgnoringCase(k, git_archive[k].url)
        /\ Cardinality(DOMAIN git_archive) = Cardinality({to_lowercase(e.url) : e \in Range(FileEntries)})
        /\ \A i \in 1..Len(FileEntries) :
              \E k \in DOMAIN git_archive :
                 /\ SameIgnoringCase(k, FileEntries[i].url)
                 /\ (\A j \in (i + 1)..Len(FileEntries) :
                        ~SameIgnoringCase(FileEntries[j].url, FileEntries[i].url))
                      => git_archive[k] = RecordOf(FileEntries[i])

\* two lines whose URLs differ in case only were parsed, the upper-case one
\* last, and the index holds a record with the upper-case URL
C17_Witness ==
    /\ main_pc = "load_hf"
    /\ Len(FileEntries) = 2
    /\ FileEntries[1].url = X
    /\ FileEntries[2].url = to_uppercase(X)
    /\ git_archive[X].url = to_uppercase(X)

\* the handler has computed the variants of the current /has_git_repo request;
\* the last of them is the stripped form of its URL
Stripped == req.path = GIT_PATH /\ main_pc = "git_lock"

Bare == variants[Len(variants)]

EndsWith(s, suf) ==
    Len(suf) <= Len(s) /\ \A i \in 1..Len(suf) : s[Len(s) - Len(suf) + i] = suf[i]

StartsWith(s, pre) == Len(pre) <= Len(s) /\ \A i \in 1..Len(pre) : s[i] = pre[i]

\* C18 as stated: for every URL, stripping its stripped form again returns it
\* unchanged.
C18_Idempotent == Stripped => stripped(Bare) = Bare

\* C18: stripping the stripped form of a URL again returns it unchanged exactly
\* when that form neither ends with ".git" nor starts with "http://",
\* "https://" or "git://"; a form that still does loses one more of them.
C18_IdempotentOnBare ==
    Stripped =>
        LET again == stripped(Bare)
        IN  /\ again = Bare
                  <=> /\ ~EndsWith(Bare, DOTGIT)
                      /\ \A s \in {HTTP, HTTPS, GIT} : ~StartsWith(Bare, s)
            /\ Len(again) <= Len(Bare)

\* a URL with one scheme and one suffix was stripped to "x", which a second
\* stripping leaves as it is
C18_Witness ==
    /\ main_pc = "git_lock"
    /\ Url = GIT \o X \o DOTGIT
    /\ Bare = X
    /\ stripped(Bare) = X

\* C19: the server is bound and requests are handled only after the git
\* archive, and the huggingface archive if one is configured, were read and
\* parsed at startup: when either fails, run never reaches Server::http and
\* no request is accepted or answered.
C19_StartupGated ==
    /\ main_pc = "load_hf" => "git" \in loaded
    /\ (main_pc = "bind" \/ Serving \/ Handling \/ served > 0)
          => /\ "git" \in loaded
             /\ hf_configured => "hf" \in loaded

\* the git archive was loaded, the huggingface file could not be read and run
\* has returned the error without a request accepted
C19_Witness ==
    /\ main_pc = "exit_err"
    /\ hf_configured /\ ~hf_file.readable
    /\ loaded = {"git"}
    /\ served = 0 /\ ~Handling

\* the index the store holds is the parse of the file as it is now
Visible == git_archive = read_and_parse_git_archive(git_file).map

\* the server runs with hot reload, the file holds well-formed content and the
\* sender of the channel is alive
Settled == Serving /\ watch /\ git_tx /\ WellFormed(git_file)

\* nothing is left of the notifications delivered so far: none is queued and no
\* reload is under way
Quiescent == git_rx = << >> /\ git_thread \notin {"parse", "store", "assign"}

\* C20: with hot reload, when the file holds well-formed content, the channel is
\* open and every notification delivered so far has had its effect, the stored
\* index equals the parse of the file's content and a request handled against
\* that index alone is answered from it.
C20_EventualVisibility ==
    (Settled /\ Quiescent) =>
        /\ Visible
        /\ (GitResponded /\ seen = {git_archive})
              => response = Evaluated(read_and_parse_git_archive(git_file).map)

\* C21: the two stores are independent. The git store's lock is held by a
\* watcher only while the git watcher thread swaps its index in, and the
\* huggingface store's lock only while the huggingface watcher thread does; a
\* request that needs one store's lock can take it unless that store's own
\* watcher thread is in its swap, whatever the other watcher thread does.
C21_StoresIndependent ==
    /\ git_lock = "watcher" => git_thread = "assign"
    /\ hf_lock = "watcher" => hf_thread = "assign"
    /\ (main_pc = "git_lock" /\ git_thread # "assign") => ENABLED GitLock
    /\ (main_pc = "hf_lock" /\ hf_thread # "assign") => ENABLED HfLock

\* a huggingface request is about to take its lock while the git watcher
\* thread holds the git store's lock for a swap
C21_Witness ==
    /\ main_pc = "hf_lock"
    /\ hf_lock = "free"
    /\ git_thread = "assign"
    /\ git_lock = "watcher"

\* C22: after the startup load, the value of a store changes only in the swap
\* step of that store's watcher thread, which puts in the whole result of a
\* parse that succeeded and moves nothing of the main thread; so no step of the
\* handling of a request changes a store. Without --watch there is no watcher
\* thread and no store ever changes after its startup load.
C22_OnlyReloadReplaces ==
    [][ /\ (git_archive' # git_archive /\ main_pc # "load_git") =>
              /\ watch
              /\ git_thread = "assign" /\ git_thread' = "recv"
              /\ git_archive' = git_map
              /\ git_good \in GitFiles /\ git_map = ParsedGitFiles[git_good]
              /\ UNCHANGED main_vars
        /\ (hf_archive' # hf_archive /\ main_pc # "load_hf") =>
              /\ watch
              /\ hf_thread = "assign" /\ hf_thread' = "recv"
              /\ hf_archive' = hf_urls
              /\ \E f \in HfFiles :
                    /\ read_and_parse_huggingface_archive(f).status = "ok"
                    /\ read_and_parse_huggingface_archive(f).urls = hf_urls
              /\ UNCHANGED main_vars
        /\ ~watch => (git_thread' = "none" /\ hf_thread' = "none")
      ]_vars

\* without --watch the file was replaced by one that parses differently, a
\* request was answered, and the store still holds the startup value
C22_Witness ==
    /\ ~watch
    /\ served >= 1
    /\ git_file # git_good
    /\ WellFormed(git_file)
    /\ git_archive = ParsedGitFiles[git_good]
    /\ git_archive # ParsedGitFiles[git_file]

\* the positions at which the main thread reads a file, the socket or a request
\* body, or writes a response
MainDoesIo == main_pc \in {"load_git", "load_hf", "bind", "accept", "respond"}

\* C23: no I/O inside a critical section. A watcher thread that reads and
\* parses its file holds no store lock, and the main thread holds no store lock
\* where it loads a file, waits for a request, reads a body, or has the response
\* built and sends it.
C23_NoIoUnderLock ==
    /\ git_thread = "parse" => git_lock # "watcher"
    /\ hf_thread = "parse" => hf_lock # "watcher"
    /\ MainDoesIo => (git_lock # "main" /\ hf_lock # "main")

\* a handler that took a store lock has its response ready to send while the
\* watcher thread of that store reads and parses the file
C23_Witness ==
    /\ main_pc = "respond"
    /\ \/ "git" \in touched /\ git_thread = "parse"
       \/ "hf" \in touched /\ hf_thread = "parse"

\* the channel of the git watcher thread is disconnected and empty, and the
\* thread is at its recv or past it
GitClosed == ~git_tx /\ git_rx = << >> /\ git_thread \in {"recv", "exited"}

HfClosed == ~hf_tx /\ hf_rx = << >> /\ hf_thread \in {"recv", "exited"}

\* C24: once the channel of a watcher thread is disconnected and drained, the
\* thread can only leave its loop (the step that ends it is enabled while the
\* process lives) and stays ended; from then on no step changes the index,
\* which is the parse of the last well-formed file content read, no later file
\* change queues anything, the lock is not left held, and a request handled
\* against it is answered from it.
C24_FrozenAfterClose ==
    [][ /\ GitClosed =>
              /\ (git_thread = "recv" /\ ProcessAlive) => ENABLED GitRecvClosed
              /\ git_thread' \in {git_thread, "exited"}
              /\ git_archive' = git_archive
              /\ git_rx' = << >>
              /\ git_good \in GitFiles /\ git_archive = ParsedGitFiles[git_good]
              /\ git_lock # "watcher" /\ ~git_poisoned
              /\ (GitResponded /\ seen = {git_archive})
                    => response = Evaluated(git_archive)
        /\ HfClosed =>
              /\ (hf_thread = "recv" /\ ProcessAlive) => ENABLED HfRecvClosed
              /\ hf_thread' \in {hf_thread, "exited"}
              /\ hf_archive' = hf_archive
              /\ hf_rx' = << >>
              /\ hf_lock # "watcher" /\ ~hf_poisoned
      ]_vars

\* the git watcher thread has ended on the closed channel, the file was then
\* replaced by one that parses differently, and a request is answered from
\* the index of before
C24_Witness ==
    /\ git_thread = "exited"
    /\ git_file # git_good
    /\ WellFormed(git_file)
    /\ git_archive = ParsedGitFiles[git_good]
    /\ git_archive # ParsedGitFiles[git_file]
    /\ GitResponded
    /\ response.exists

\* C25: requests are handled one at a time in arrival order. A request is read
\* only where the loop waits with no request in hand and no response pending,
\* and it leaves only by the step that sends its response, which is the one
\* step that counts a request as answered; so request n+1 is read after the
\* response to request n was sent. Only the request in hand holds a store lock,
\* and never both locks.
C25_OneAtATime ==
    [][ /\ req' # req =>
              \/ /\ req = NoRequest /\ main_pc = "accept"
                 /\ response = NoResponse
                 /\ served' = served
              \/ /\ req' = NoRequest /\ main_pc = "respond"
                 /\ response # NoResponse
                 /\ served' = served + 1
        /\ served' # served => (served' = served + 1 /\ req # NoRequest /\ req' = NoRequest)
        /\ (git_lock = "main" \/ hf_lock = "main") => req # NoRequest
        /\ ~(git_lock = "main" /\ hf_lock = "main")
      ]_vars

\* the second request has its response ready after the first one was answered
C25_Witness ==
    /\ served = 1
    /\ main_pc = "respond"
    /\ req # NoRequest
    /\ response # NoResponse

\* the variant order of the claim for a stripped form
FixedOrder(st) ==
    << HTTP \o st \o DOTGIT, HTTP \o st, HTTPS \o st \o DOTGIT, HTTPS \o st,
       GIT \o st \o DOTGIT, GIT \o st, st >>

\* the stored urls of the first n strings of order that are keys of idx
RECURSIVE HitUrls(_, _, _)
HitUrls(order, idx, n) ==
    IF n = 0 THEN << >>
    ELSE HitUrls(order, idx, n - 1)
           \o (IF order[n] \in DOMAIN idx THEN << idx[order[n]].url >> ELSE << >>)

\* C26: metadata selection is deterministic. The variants are tried in the
\* fixed order http+.git, http, https+.git, https, git+.git, git, bare;
\* existing lists the stored urls of the matching ones in that order, the
\* metadata is the record of the first of them, so its url is existing[0], and
\* the body is a function of the query and the index alone.
C26_FirstMatchDeterministic ==
    GitResponded =>
      LET order == FixedOrder(ClaimedStripped(Url))
          hits == {i \in 1..7 : order[i] \in DOMAIN git_archive}
      IN  /\ variants = order
          /\ response.existing = HitUrls(order, git_archive, 7)
          /\ hits = {} => "metadata" \notin DOMAIN response
          /\ hits # {} =>
                LET first == CHOOSE i \in hits : \A j \in hits : i <= j
                IN  /\ "metadata" \in DOMAIN response
                    /\ response.metadata = git_archive[order[first]]
                    /\ response.metadata.url = response.existing[1]
          /\ response = Evaluated(git_archive)

\* two records match, neither under the first variant, and the metadata is
\* that of the earlier one
C26_Witness ==
    /\ GitResponded
    /\ Len(response.existing) = 2
    /\ variants[1] \notin DOMAIN git_archive
    /\ response.metadata.url = response.existing[1]
    /\ response.metadata.url # response.existing[2]

\* the spellings of a stripped form: each scheme or none, with or without
\* ".git", as they are and in upper case
Respelled(st) ==
    LET forms == {s \o st \o x : s \in {<< >>, HTTP, HTTPS, GIT}, x \in {<< >>, DOTGIT}}
    IN  forms \cup {to_uppercase(f) : f \in forms}

\* the body handle_has_git_repo_req returns for query u against idx
Answer(u, idx) ==
    LET r == scan(idx, variants_of(u), Len(variants_of(u)))
    IN  git_response(r.existing, r.metadata)

\* C27: the response depends only on the stripped form of the query. Every
\* other spelling with the same stripped form (another letter case, another
\* scheme or none, a trailing ".git" or none) gets, against the same index,
\* the body the query in hand got.
C27_StrippedFormDecides ==
    GitResponded =>
      LET st == ClaimedStripped(Url)
      IN  \A u \in Respelled(st) :
             ClaimedStripped(u) = st
               => (~logic_error(u) /\ Answer(u, git_archive) = response)

\* a query in upper case, which is none of its own variants, finds a record,
\* and it has spellings apart from itself to agree with
C27_Witness ==
    /\ GitResponded
    /\ response.exists
    /\ Url # to_lowercase(Url)
    /\ Url \notin Range(variants)
    /\ \E u \in Respelled(ClaimedStripped(Url)) :
          u # Url /\ u # to_lowercase(Url) /\ ClaimedStripped(u) = ClaimedStripped(Url)

\* C28: no deadlock and no poisoned lock. No lock is ever poisoned and the main
\* thread never panics on one; the main thread never holds both locks; while
\* the process lives, whoever holds a lock has its next step enabled and that
\* step or the ones after it release the lock without waiting for anything,
\* and whoever waits for a lock waits for such a holder.
C28_NoDeadlockNoPoison ==
    /\ ~git_poisoned /\ ~hf_poisoned
    /\ main_pc # "poison_panic"
    /\ ~(git_lock = "main" /\ hf_lock = "main")
    /\ git_lock = "main" => (main_pc = "git_lookup" /\ (ENABLED GitLookup \/ ENABLED GitUnlock))
    /\ hf_lock = "main" => (main_pc = "hf_scan" /\ ENABLED HfScan)
    /\ (git_lock = "watcher" /\ ProcessAlive) => ENABLED GitStoreAssign
    /\ (hf_lock = "watcher" /\ ProcessAlive) => ENABLED HfStoreAssign
    /\ (main_pc = "git_lock" /\ ~ENABLED GitLock) => git_lock = "watcher"
    /\ (main_pc = "hf_lock" /\ ~ENABLED HfLock) => hf_lock = "watcher"
    /\ (git_thread = "store" /\ ProcessAlive /\ ~ENABLED GitStoreLock) => git_lock = "main"
    /\ (hf_thread = "store" /\ ProcessAlive /\ ~ENABLED HfStoreLock) => hf_lock = "main"

\* the git lock is contended: the main thread waits for it while the git
\* watcher thread holds it for its swap
C28_Witness == main_pc = "git_lock" /\ git_lock = "watcher" /\ git_thread = "assign"

\* C29: a watch error delivered on the channel triggers no reload and changes
\* nothing but the queue: the step that takes it leaves the thread at its
\* recv, and the store, the thread's map and the last content read as they
\* are. A thread that has logged an error still takes whatever is queued next.
C29_WatchErrorIgnored ==
    [][ /\ (git_thread = "recv" /\ git_rx # << >> /\ Head(git_rx) = "error"
              /\ git_rx' = Tail(git_rx))
             => /\ git_thread' = "recv"
                /\ UNCHANGED << git_store, git_map, git_tx, git_good >>
        /\ (hf_thread = "recv" /\ hf_rx # << >> /\ Head(hf_rx) = "error"
              /\ hf_rx' = Tail(hf_rx))
             => /\ hf_thread' = "recv"
                /\ UNCHANGED << hf_store, hf_urls, hf_tx >>
        /\ ("git" \in logged /\ git_thread = "recv" /\ git_rx # << >> /\ ProcessAlive)
             => (ENABLED GitRecvEvent \/ ENABLED GitRecvError)
        /\ ("hf" \in logged /\ hf_thread = "recv" /\ hf_rx # << >> /\ ProcessAlive)
             => (ENABLED HfRecvEvent \/ ENABLED HfRecvError)
        /\ "git" \in logged => git_thread # "exited" \/ ~git_tx
        /\ "hf" \in logged => hf_thread # "exited" \/ ~hf_tx
      ]_vars

\* the git watcher thread logged a watch error and is now swapping in the
\* index of a reload it started on a later notification
C29_Witness == "git" \in logged /\ git_thread = "assign" /\ git_lock = "watcher"

\* no string occurs twice in s
NoRepeats(s) == \A i, j \in 1..Len(s) : i # j => s[i] # s[j]

\* C30: the 7 variants of any query are pairwise distinct, so against an index
\* built by the parser existing never has more than 7 entries and never holds
\* one stored URL twice, at any point of the lookup and in the body returned.
C30_VariantsDistinct ==
    (req.path = GIT_PATH /\ main_pc \notin {"accept", "git_variants"}) =>
      /\ Len(variants) = 7
      /\ NoRepeats(variants)
      /\ Len(existing) <= 7
      /\ NoRepeats(existing)
      /\ GitResponded => response.existing = existing

\* the file has two lines for one URL in two letter cases, and the query for
\* it gets the one record the parser kept
C30_Witness ==
    /\ git_file = File(<< Line(X, "d"), Line(to_uppercase(X), "e") >>)
    /\ GitResponded
    /\ Url = X
    /\ response.existing = << to_uppercase(X) >>

====
